---- MODULE Spec2Model ----
(***************************************************************************)
(* fs-change-detector: a debounced filesystem change detector.             *)
(*                                                                         *)
(* Two threads share one channel.  The consumer thread runs                *)
(* FileWatcher::new (start_watch, then a drain loop), then any number of   *)
(* FileWatcher::has_changed calls (a drain loop each), then drops the      *)
(* FileWatcher.  The watcher's background thread runs the callback closure *)
(* of start_watch once per raw event: it filters on the event kind,        *)
(* debounces on the time since the last accepted event, and sends one      *)
(* ChangeMessage down the channel.                                         *)
(*                                                                         *)
(* Atomicity: one action per access to the channel (a send, a recv), since *)
(* the channel is the only state the two threads share; last_event is      *)
(* private to the closure.  Time is in milliseconds.                       *)
(***************************************************************************)
EXTENDS Integers, Sequences, FiniteSets, TLC

\* ------------------------------------------------------------------ bounds
\* The clock stops advancing at MaxTime.
MaxTime == 200
\* The callback is invoked at most MaxEvents times.
MaxEvents == 2
\* ... and at most MaxStreamEvents times when it runs without a consumer.
MaxStreamEvents == 5
\* has_changed is called at most MaxPolls times.
MaxPolls == 2

\* The amounts by which the clock advances between two steps: half a debounce
\* window and a whole one.  Several steps may be taken at the same instant.
TimeSteps == {50, 100}

\* ------------------------------------------------------- program constants
\* Duration::from_millis(100)
debounce_duration == 100
\* Duration::from_secs(1), subtracted from Instant::now() for the first last_event
InitialBackdate == 1000

\* The paths a caller may ask to watch.
Paths == {"./", "/missing"}

\* notify::EventKind, with ModifyKind spelled out.
EventKinds ==
    {"Any", "Access", "Create", "ModifyAny", "ModifyData", "ModifyMetadata",
     "ModifyName", "ModifyOther", "Remove", "Other"}

\* What the callback is invoked with: Ok(event) of some kind, or Err(e).
RawResults == [ok : {TRUE}, kind : EventKinds] \cup {[ok |-> FALSE, kind |-> "Err"]}

\* notify::ErrorKind
ErrorKinds == {"PathNotFound", "MaxFilesWatch", "Generic", "InvalidConfig", "WatchNotFound", "Io"}

\* The payload a notify error carries besides its kind (a message, a config,
\* an io::Error), as reported by the underlying mechanism.
Payloads == {"m1", "m2"}

NotifyErrors == [kind : ErrorKinds, payload : Payloads]

NoError == [tag |-> "none", arg |-> "none"]

\* ------------------------------------------------------------------- state
VARIABLES
    pc,          \* consumer thread: "start", "new_drain", "idle", "has_changed",
                 \*   "failed", "dropping", "dropped"
    watch_path,  \* the path given to FileWatcher::new ("none" before the call)
    watcher,     \* the RecommendedWatcher: "none", "alive", "dropped"
                 \*   ("panicked": its thread died in the callback; the code has
                 \*   no path to it)
    receiver,    \* the Receiver<ChangeMessage>: "none", "alive", "dropped"
    err,         \* the FileWatcherError returned by new, or NoError
    queue,       \* the channel's queued ChangeMessages
    now,         \* the monotonic clock read by Instant::now()
    last_event,  \* the closure's debounce timestamp
    result,      \* has_changed's local
    hist         \* history of the run, read only by the properties

vars == <<pc, watch_path, watcher, receiver, err, queue, now, last_event, result, hist>>

\* ----------------------------------------------------------------- history
\* hist records what happened, for the properties to read.  No update of the
\* program's state reads it; the only guards that read it are the bounds on
\* the number of callback invocations and of polls, and the choice of where
\* the tracked burst starts (which restricts no step of the program).
\*
\* A burst is a run of consecutive qualifying events (Ok(Modify(Data)) or
\* Ok(Modify(Any))) that all lie strictly within one debounce window of the
\* run's first event.  Any qualifying event may be taken as the first of a
\* burst, so the tracker restarts at a qualifying event of its choice (and
\* must restart once the event at hand is a window or more after the first).
InitHist ==
    [ notifyErr    |-> "none",   \* the notify error start_watch ran into, if any
      cbCount      |-> 0,        \* callback invocations so far
      lastQual     |-> FALSE,    \* the last callback invocation was a qualifying event
      lastErr      |-> FALSE,    \* the last callback invocation was given Err(e)
      lastSendFailed |-> FALSE,  \* the last callback invocation's send returned Err
      sendFails    |-> 0,        \* sends that returned Err so far
      lastSentAt   |-> -1,       \* the time of the last enqueued signal (-1: none yet)
      sendGapOk    |-> TRUE,     \* every signal was enqueued at least a window after
                                 \*   the signal before it
      lastGap      |-> FALSE,    \* ... that came at least a window after last_event
      gapEvents    |-> 0,        \* qualifying events so far that came at least a window
                                 \*   after last_event
      sent         |-> 0,        \* signals enqueued so far
      initDrained  |-> 0,        \* signals received by new's drain loop
      sentAtLive   |-> 0,        \* sent, when new returned
      pollDrained  |-> 0,        \* signals received by has_changed calls
      polls        |-> 0,        \* has_changed calls that have returned
      pollsTrue    |-> 0,        \* has_changed calls that have returned true
      goneAtCall   |-> FALSE,    \* the watcher (and its sender) was already dropped when
                                 \*   the current/last call was entered
      pollsGone    |-> 0,        \* has_changed calls entered and returned since then
      lastResult   |-> FALSE,    \* what the last has_changed call returned (polls >= 1)
      prevResult   |-> FALSE,    \* what the call before it returned (polls >= 2)
      qAtCall      |-> 0,        \* queue length when the current/last call was entered
      qAtPrevCall  |-> 0,        \* queue length when the call before it was entered
      qAtFirstRecv |-> -1,       \* queue length at its first recv (-1: not yet)
      drainedInCall|-> 0,        \* Ok receives of the current/last call
      recvsInCall  |-> 0,        \* receives (Ok and Err) of the current/last call
      sentInCall   |-> 0,        \* signals enqueued while the current/last call ran
      cbAtCall     |-> 0,        \* cbCount when the current/last call was entered
      cbAtPrevCall |-> -1,       \* cbCount when the call before it was entered
      burstStart   |-> -1,       \* time of the first event of the tracked burst
      burstN       |-> 0,        \* qualifying events in the tracked burst
      burstSent    |-> 0,        \* signals enqueued for the tracked burst
      burstFresh   |-> FALSE,    \* its first event came at least a window after last_event
      burstClean   |-> FALSE,    \* its first event came after new returned, the queue empty
      burstTrue    |-> 0,        \* has_changed calls that returned true since its first event
      pollsSinceEvent |-> 0,     \* has_changed calls entered and returned since the last
                                 \*   qualifying event
      unreported   |-> FALSE,    \* a qualifying event was delivered after a poll returned
                                 \*   and no poll has returned true since
      unreportedAtCall |-> FALSE ] \* unreported, when the current/last call was entered

\* ------------------------------------------------------------- error mapping
\* A mapping without the PathNotFound arm: the kind falls to the generic error.
MapWithoutPathNotFound(e, path) ==
    CASE e.kind = "PathNotFound"  -> [tag |-> "WatcherGenericError", arg |-> e.payload]
      [] e.kind = "MaxFilesWatch" -> [tag |-> "TooManyWatches", arg |-> "none"]
      [] e.kind = "Generic"       -> [tag |-> "WatcherGenericError", arg |-> e.payload]
      [] e.kind = "InvalidConfig" -> [tag |-> "InvalidWatcherConfig", arg |-> e.payload]
      [] e.kind = "WatchNotFound" -> [tag |-> "WatchNotFound", arg |-> path]
      [] e.kind = "Io"            -> [tag |-> "IoError", arg |-> e.payload]

\* A mapping that reports notify's generic error as a channel error.
MapGenericAsInternal(e, path) ==
    CASE e.kind = "PathNotFound"  -> [tag |-> "PathNotFound", arg |-> path]
      [] e.kind = "MaxFilesWatch" -> [tag |-> "TooManyWatches", arg |-> "none"]
      [] e.kind = "Generic"       -> [tag |-> "InternalChannelError", arg |-> "none"]
      [] e.kind = "InvalidConfig" -> [tag |-> "InvalidWatcherConfig", arg |-> e.payload]
      [] e.kind = "WatchNotFound" -> [tag |-> "WatchNotFound", arg |-> path]
      [] e.kind = "Io"            -> [tag |-> "IoError", arg |-> e.payload]

\* map_notify_error_to_file_watcher_error(e, path)
map_notify_error_to_file_watcher_error(e, path) ==
    CASE e.kind = "PathNotFound"  -> [tag |-> "PathNotFound", arg |-> path]
      [] e.kind = "MaxFilesWatch" -> [tag |-> "TooManyWatches", arg |-> "none"]
      [] e.kind = "Generic"       -> [tag |-> "WatcherGenericError", arg |-> e.payload]
      [] e.kind = "InvalidConfig" -> [tag |-> "InvalidWatcherConfig", arg |-> e.payload]
      [] e.kind = "WatchNotFound" -> [tag |-> "WatchNotFound", arg |-> path]
      [] e.kind = "Io"            -> [tag |-> "IoError", arg |-> e.payload]

\* ------------------------------------------------------------------- channel
\* A recv that reports the disconnection as soon as the sender is gone, the
\* queued messages notwithstanding.
RecvOkWhileConnected == Len(queue) > 0 /\ watcher = "alive"

\* Receiver::recv returns Ok(message): a message is queued.
RecvOk == Len(queue) > 0

\* Receiver::recv returns Err, at once: no message is queued.
RecvErr == Len(queue) = 0

\* A recv that reads the front message and leaves it queued.
RecvPeek(q) == q

\* A recv that loses the message behind the one it returns.
RecvLossy(q) == IF Len(q) >= 2 THEN Tail(Tail(q)) ELSE Tail(q)

\* The queue after a recv that returned Ok: the front message is taken.
Recv(q) == Tail(q)

\* The queue after a send that returned Ok: one message is appended.
Send(q) == Append(q, "SomeKindOfChange")

\* The outcomes of Sender::send: Ok while the receiver is held; once the
\* receiver is dropped the send may succeed or fail.
SendOutcomes == IF receiver = "alive" THEN {TRUE} ELSE {TRUE, FALSE}

\* ------------------------------------------------------------------ callback
\* A filter that lets every Modify(_) through, metadata and renames included.
QualifiesAnyModify(res) ==
    res.ok /\ res.kind \in {"ModifyData", "ModifyAny", "ModifyMetadata", "ModifyName", "ModifyOther"}

\* A filter that takes an Err result for a change.
QualifiesOrErr(res) == ~res.ok \/ res.kind \in {"ModifyData", "ModifyAny"}

\* matches!(event.kind, Modify(Data(_)) | Modify(Any))
Qualifies(res) == res.ok /\ res.kind \in {"ModifyData", "ModifyAny"}

\* No debounce: every qualifying event is accepted.
DebounceOff(t, last) == TRUE

\* A debounce that needs more than a window to have elapsed.
DebounceStrict(t, last) == t - last > debounce_duration

\* A debounce of half a window.
DebounceHalfWindow(t, last) == 2 * (t - last) >= debounce_duration

\* now.duration_since(last_event) >= debounce_duration
DebouncePassed(t, last) == t - last >= debounce_duration

\* A debounce timestamp that starts at the time of creation.
InitialLastEventNow(t) == t

\* Instant::now().checked_sub(Duration::from_secs(1)).unwrap()
InitialLastEvent(t) == t - InitialBackdate

Init ==
    /\ pc = "start"
    /\ watch_path = "none"
    /\ watcher = "none"
    /\ receiver = "none"
    /\ err = NoError
    /\ queue = <<>>
    /\ now = 0
    /\ last_event = 0
    /\ result = FALSE
    /\ hist = InitHist

\* Time passes.  The clock is read only by the callback, so it is tracked
\* only while a watcher exists and the callback may still be invoked.
TickUpTo(maxEvents) ==
    /\ watcher = "alive"
    /\ hist.cbCount < maxEvents
    /\ \E d \in TimeSteps :
          /\ now + d <= MaxTime
          /\ now' = now + d
    /\ UNCHANGED <<pc, watch_path, watcher, receiver, err, queue, last_event, result, hist>>

Tick == TickUpTo(MaxEvents)

\* ----------------------------------------------------------- FileWatcher::new
\* new -> start_watch fails: notify::recommended_watcher or watcher.watch
\* returns an error, which is mapped and returned by `?`; the channel made
\* at the top of start_watch is dropped with it.
NewFails ==
    /\ pc = "start"
    /\ \E path \in Paths, e \in NotifyErrors :
          /\ watch_path' = path
          /\ err' = map_notify_error_to_file_watcher_error(e, path)
          /\ hist' = [hist EXCEPT !.notifyErr = e]
    /\ pc' = "failed"
    /\ UNCHANGED <<watcher, receiver, queue, now, last_event, result>>

\* new -> start_watch succeeds: the channel is created, the debounce
\* timestamp starts one second in the past, the watch is registered and new
\* enters its drain loop.
NewStartWatch ==
    /\ pc = "start"
    /\ \E path \in Paths : watch_path' = path
    /\ queue' = <<>>
    /\ last_event' = InitialLastEvent(now)
    /\ watcher' = "alive"
    /\ receiver' = "alive"
    /\ pc' = "new_drain"
    /\ UNCHANGED <<err, now, result, hist>>

\* A constructor that returns without draining (pass-through).
NewLoopSkipped == TRUE

\* new's loop `while let Ok(_found) = receiver.recv() {}` ends.
NewLoopEnds == RecvErr

\* new's drain loop: recv returned Ok, the message is discarded.
NewRecv ==
    /\ pc = "new_drain"
    /\ RecvOk
    /\ queue' = Recv(queue)
    /\ hist' = [hist EXCEPT !.initDrained = @ + 1]
    /\ UNCHANGED <<pc, watch_path, watcher, receiver, err, now, last_event, result>>

\* new's drain loop: recv returned Err, new returns Ok(Self { receiver, watcher }).
NewReturn ==
    /\ pc = "new_drain"
    /\ NewLoopEnds
    /\ pc' = "idle"
    /\ hist' = [hist EXCEPT !.sentAtLive = hist.sent]
    /\ UNCHANGED <<watch_path, watcher, receiver, err, queue, now, last_event, result>>

\* ------------------------------------------------------------------ callback
\* The queue after the callback ran on res, the send having succeeded or not.
CallbackQueue(res, sendOk) ==
    IF Qualifies(res) /\ DebouncePassed(now, last_event) /\ sendOk
    THEN Send(queue)
    ELSE queue

\* A sliding reset: the timestamp follows every qualifying event, accepted
\* or not.
CallbackLastEventSliding(res, sendOk) ==
    IF Qualifies(res) THEN now ELSE last_event

\* A timestamp that advances only when the signal was enqueued.
CallbackLastEventOnSuccess(res, sendOk) ==
    IF Qualifies(res) /\ DebouncePassed(now, last_event) /\ sendOk
    THEN now
    ELSE last_event

\* last_event after the callback ran on res: set to now when the event was
\* accepted, whether or not the send succeeded.
CallbackLastEvent(res, sendOk) ==
    IF Qualifies(res) /\ DebouncePassed(now, last_event)
    THEN now
    ELSE last_event

\* A closure that unwraps the send's result: a failed send panics on the
\* watcher's thread and ends the processing of events.
CallbackWatcherUnwrap(res, sendOk) ==
    IF Qualifies(res) /\ DebouncePassed(now, last_event) /\ ~sendOk
    THEN "panicked"
    ELSE watcher

\* The watcher after the callback ran on res: the closure returns normally
\* on every path (a failed send and an Err result are logged), so the
\* watcher goes on delivering events.
CallbackWatcher(res, sendOk) == watcher

\* The history after a callback invocation on res that enqueued n (0 or 1)
\* signals; restart: the tracked burst starts at this event.
CallbackHist(res, n, sendOk, restart) ==
    LET qual == res.ok /\ res.kind \in {"ModifyData", "ModifyAny"}
        gap  == now - last_event >= 100
        failed == qual /\ gap /\ ~sendOk
        h1 == [hist EXCEPT
                 !.cbCount    = @ + 1,
                 !.lastQual   = qual,
                 !.lastErr    = ~res.ok,
                 !.lastSendFailed = failed,
                 !.sendFails  = IF failed THEN @ + 1 ELSE @,
                 !.lastSentAt = IF n > 0 THEN now ELSE @,
                 !.sendGapOk  = @ /\ (n > 0 /\ hist.lastSentAt # -1
                                         => now - hist.lastSentAt >= 100),
                 !.lastGap    = qual /\ gap,
                 !.gapEvents  = IF qual /\ gap THEN @ + 1 ELSE @,
                 !.sent       = @ + n,
                 !.sentInCall = IF pc = "has_changed" THEN @ + n ELSE @,
                 !.pollsSinceEvent = IF qual THEN 0 ELSE @,
                 !.unreported = @ \/ (qual /\ hist.polls >= 1)]
    IN  IF ~qual THEN h1
        ELSE IF restart
        THEN [h1 EXCEPT !.burstStart = now,
                        !.burstN     = 1,
                        !.burstSent  = n,
                        !.burstFresh = gap,
                        !.burstClean = (pc \in {"idle", "has_changed"} /\ queue = <<>>),
                        !.burstTrue  = 0]
        ELSE [h1 EXCEPT !.burstN = @ + 1, !.burstSent = @ + n]

\* The closure given to notify::recommended_watcher, invoked on the watcher's
\* thread with one raw result while the watcher is alive.
CallbackUpTo(maxEvents) ==
    /\ watcher = "alive"
    /\ hist.cbCount < maxEvents
    /\ \E res \in RawResults, sendOk \in SendOutcomes, restart \in BOOLEAN :
          /\ restart \/ (hist.burstN > 0 /\ now - hist.burstStart < 100
                         /\ res.ok /\ res.kind \in {"ModifyData", "ModifyAny"})
          /\ queue' = CallbackQueue(res, sendOk)
          /\ last_event' = CallbackLastEvent(res, sendOk)
          /\ watcher' = CallbackWatcher(res, sendOk)
          /\ hist' = CallbackHist(res, Len(queue') - Len(queue), sendOk, restart)
    /\ UNCHANGED <<pc, watch_path, receiver, err, now, result>>

Callback == CallbackUpTo(MaxEvents)

\* ---------------------------------------------------------------- has_changed
\* A result kept from the call before instead of a fresh local.
ResultInitStale == result

\* let mut result = false;
ResultInit == FALSE

\* A loop body that never sets the result.
ResultOnRecvKept(r) == r

\* result = true; in the loop's body
ResultOnRecv(r) == TRUE

\* has_changed is entered.
HasChangedCall ==
    /\ pc = "idle"
    /\ hist.polls < MaxPolls
    /\ pc' = "has_changed"
    /\ result' = ResultInit
    /\ hist' = [hist EXCEPT
                  !.cbAtPrevCall  = IF hist.polls >= 1 THEN hist.cbAtCall ELSE -1,
                  !.cbAtCall      = hist.cbCount,
                  !.goneAtCall    = (watcher = "dropped"),
                  !.qAtPrevCall   = hist.qAtCall,
                  !.qAtCall       = Len(queue),
                  !.qAtFirstRecv  = -1,
                  !.drainedInCall = 0,
                  !.recvsInCall   = 0,
                  !.sentInCall    = 0,
                  !.unreportedAtCall = hist.unreported]
    /\ UNCHANGED <<watch_path, watcher, receiver, err, queue, now, last_event>>

\* has_changed's loop `while let Ok(_found) = self.receiver.recv()`: recv
\* returned Ok.
HasChangedRecv ==
    /\ pc = "has_changed"
    /\ RecvOk
    /\ queue' = Recv(queue)
    /\ result' = ResultOnRecv(result)
    /\ hist' = [hist EXCEPT
                  !.qAtFirstRecv  = IF @ = -1 THEN Len(queue) ELSE @,
                  !.drainedInCall = @ + 1,
                  !.recvsInCall   = @ + 1,
                  !.pollDrained   = @ + 1]
    /\ UNCHANGED <<pc, watch_path, watcher, receiver, err, now, last_event>>

\* has_changed's loop: recv returned Err, the loop ends and result is returned.
HasChangedReturn ==
    /\ pc = "has_changed"
    /\ RecvErr
    /\ pc' = "idle"
    /\ hist' = [hist EXCEPT
                  !.qAtFirstRecv = IF @ = -1 THEN Len(queue) ELSE @,
                  !.recvsInCall  = @ + 1,
                  !.polls        = @ + 1,
                  !.pollsTrue    = IF result THEN @ + 1 ELSE @,
                  !.pollsGone    = IF hist.goneAtCall THEN @ + 1 ELSE @,
                  !.prevResult   = hist.lastResult,
                  !.lastResult   = result,
                  !.burstTrue    = IF result THEN @ + 1 ELSE @,
                  !.pollsSinceEvent = IF hist.cbAtCall = hist.cbCount THEN @ + 1 ELSE @,
                  !.unreported   = IF result THEN FALSE ELSE @]
    /\ UNCHANGED <<watch_path, watcher, receiver, err, queue, now, last_event, result>>

\* ----------------------------------------------------------------------- drop
\* The caller drops the watch handle and keeps the receiver: `watcher` is a
\* pub field, so it can be assigned or moved out of the FileWatcher.  The
\* closure, which owns the sender, goes with it.
ReleaseWatcher ==
    /\ pc = "idle"
    /\ watcher = "alive"
    /\ watcher' = "dropped"
    /\ UNCHANGED <<pc, watch_path, receiver, err, queue, now, last_event, result, hist>>

\* The FileWatcher is dropped: its fields are dropped in declaration order,
\* the receiver first.
DropReceiver ==
    /\ pc = "idle"
    /\ pc' = "dropping"
    /\ receiver' = "dropped"
    /\ UNCHANGED <<watch_path, watcher, err, queue, now, last_event, result, hist>>

\* ... and the watcher second, which ends the watch.
DropWatcher ==
    /\ pc = "dropping"
    /\ pc' = "dropped"
    /\ watcher' = "dropped"
    /\ UNCHANGED <<watch_path, receiver, err, queue, now, last_event, result, hist>>

Next ==
    \/ Tick
    \/ NewFails
    \/ NewStartWatch
    \/ NewRecv
    \/ NewReturn
    \/ Callback
    \/ HasChangedCall
    \/ HasChangedRecv
    \/ HasChangedReturn
    \/ ReleaseWatcher
    \/ DropReceiver
    \/ DropWatcher

Spec == Init /\ [][Next]_vars

\* The callback on its own: start_watch, new's drain loop and a longer
\* stream of raw events, with no has_changed call and no drop.
StreamTick == TickUpTo(MaxStreamEvents)

StreamCallback == CallbackUpTo(MaxStreamEvents)

NextStream ==
    \/ StreamTick
    \/ NewStartWatch
    \/ NewRecv
    \/ NewReturn
    \/ StreamCallback

SpecStream == Init /\ [][NextStream]_vars

\* A has_changed call has returned and none is running: the call-related
\* fields of hist describe a completed call.
Returned == hist.polls >= 1 /\ pc # "has_changed"

\* ======================================================================
\* C1: has_changed returns true if and only if it drained at least one
\* ChangeMessage during the call, and false when its first recv found the
\* queue empty; while the call runs, its local result says whether it has
\* drained anything yet.  Nothing else enters: not the number drained, not
\* what earlier polls returned.
C1_ResultIffDrained ==
    /\ pc = "has_changed" => (result <=> hist.drainedInCall >= 1)
    /\ Returned => /\ hist.lastResult <=> hist.drainedInCall >= 1
                   /\ hist.qAtFirstRecv = 0 => ~hist.lastResult
                   /\ hist.qAtFirstRecv > 0 => hist.lastResult

\* C1 witness: a second poll that drained two signals returned true after a
\* first poll that had returned false.
C1_Witness ==
    /\ Returned
    /\ hist.polls >= 2
    /\ ~hist.prevResult
    /\ hist.lastResult
    /\ hist.drainedInCall >= 2

\* ======================================================================
\* C2: signals are consumed, not peeked.  The queue is empty whenever a
\* has_changed call returns; and of two calls in succession with no callback
\* invocation since the first was entered, the second returns false, the
\* first having returned true exactly when signals were pending at its entry.
C2_QueueEmptyAtReturn == [][(pc = "has_changed" /\ pc' = "idle") => queue' = <<>>]_vars

C2_SecondPollFalse ==
    (Returned /\ hist.polls >= 2 /\ hist.cbCount = hist.cbAtPrevCall)
        => /\ ~hist.lastResult
           /\ hist.prevResult <=> hist.qAtPrevCall > 0
           /\ queue = <<>>

C2_ConsumedNotPeeked == []C2_SecondPollFalse /\ C2_QueueEmptyAtReturn

\* C2 witness: true then false, with no callback invocation since the first
\* of the two calls was entered.
C2_Witness ==
    /\ Returned
    /\ hist.polls >= 2
    /\ hist.cbCount = hist.cbAtPrevCall
    /\ hist.prevResult
    /\ ~hist.lastResult

C4_ChangeAfterPollReported ==
    (Returned /\ hist.unreportedAtCall) => hist.lastResult

\* ======================================================================
\* C5: a callback invocation on anything but Ok(Modify(Data(_))) or
\* Ok(Modify(Any)) leaves the queue and last_event unchanged.
C5_FilterCorrect ==
    [][(hist'.cbCount # hist.cbCount /\ ~hist'.lastQual)
          => (queue' = queue /\ last_event' = last_event)]_vars

\* C5 witness: two or more non-qualifying invocations, each with the
\* debounce window long past, and nothing enqueued.
C5_Witness ==
    /\ receiver = "alive"
    /\ hist.cbCount >= 2
    /\ ~hist.lastQual
    /\ hist.gapEvents = 0
    /\ hist.sent = 0
    /\ queue = <<>>
    /\ now - last_event >= 100

\* ======================================================================
\* C6: while the receiver is held, a qualifying event that arrives at least
\* one debounce window after the last accepted event enqueues exactly one
\* signal and moves last_event to now, so the signals enqueued number the
\* events so spaced; a has_changed call during which the callback does not
\* run drains all the signals queued at its entry and returns true, and of
\* the calls made after the last qualifying event every one after the first
\* returns false.
C6_SpacedEventStep ==
    [][(hist'.cbCount # hist.cbCount /\ hist'.lastGap /\ receiver = "alive")
          => (queue' = Append(queue, "SomeKindOfChange") /\ last_event' = now)]_vars

C6_SpacedEventsPolled ==
    /\ receiver = "alive" => hist.sent = hist.gapEvents
    /\ (Returned /\ hist.cbAtCall = hist.cbCount /\ hist.qAtCall > 0)
          => (hist.lastResult /\ hist.drainedInCall = hist.qAtCall /\ queue = <<>>)
    /\ (Returned /\ hist.pollsSinceEvent >= 2) => ~hist.lastResult

C6_SpacedEventsReported == []C6_SpacedEventsPolled /\ C6_SpacedEventStep

\* C6 witness: two or more spaced events were drained by one call that
\* returned true, and the call after it returned false.
C6_Witness ==
    /\ Returned
    /\ hist.polls >= 2
    /\ hist.gapEvents >= 2
    /\ hist.qAtPrevCall >= 2
    /\ hist.prevResult
    /\ hist.pollsSinceEvent >= 2
    /\ ~hist.lastResult

\* ======================================================================
\* C8: when start_watch fails, new returns an error and creates no watcher
\* and no receiver; the error is the variant of the notify error's kind
\* (PathNotFound -> PathNotFound carrying the requested path, MaxFilesWatch
\* -> TooManyWatches, InvalidConfig -> InvalidWatcherConfig, Generic ->
\* WatcherGenericError, Io -> IoError, each carrying the notify error's
\* payload), and an error is returned only on failure.
C8_Variant ==
    [ PathNotFound  |-> "PathNotFound",
      MaxFilesWatch |-> "TooManyWatches",
      InvalidConfig |-> "InvalidWatcherConfig",
      Generic       |-> "WatcherGenericError",
      Io            |-> "IoError" ]

C8_ConstructionFailureMapped ==
    /\ pc = "failed" =>
          /\ watcher = "none" /\ receiver = "none" /\ queue = <<>>
          /\ err # NoError
          /\ hist.notifyErr.kind \in DOMAIN C8_Variant =>
                err.tag = C8_Variant[hist.notifyErr.kind]
          /\ hist.notifyErr.kind = "PathNotFound" =>
                err = [tag |-> "PathNotFound", arg |-> watch_path]
          /\ hist.notifyErr.kind \in {"InvalidConfig", "Generic", "Io"} =>
                err.arg = hist.notifyErr.payload
    /\ pc \notin {"start", "failed"} =>
          (err = NoError /\ watcher # "none" /\ receiver # "none")
    /\ pc = "start" => (err = NoError /\ watcher = "none" /\ receiver = "none")

\* C8 witness: watching a missing path failed with notify's PathNotFound and
\* new returned PathNotFound carrying that path.
C8_Witness ==
    /\ pc = "failed"
    /\ watch_path = "/missing"
    /\ hist.notifyErr.kind = "PathNotFound"
    /\ err = [tag |-> "PathNotFound", arg |-> "/missing"]

\* ======================================================================
\* C9 as claimed: has_changed only drains what is already queued when it is
\* called, so the receives of a call are bounded by the queue length at its
\* entry, whatever the callback enqueues meanwhile.
C9_OnlyDrainsQueued ==
    /\ hist.drainedInCall <= hist.qAtCall
    /\ hist.recvsInCall <= hist.qAtCall + 1

\* C9 as amended: has_changed never waits for an event: in its loop a recv
\* can always be taken at once, and on an empty queue the recv fails and the
\* call returns (false after that single recv when the queue was empty at
\* its first recv).  The call drains the signals queued at its entry and
\* those enqueued while it runs: it returns after one failed recv and one
\* successful recv per signal drained, so its receives are bounded by the
\* queue length at its entry plus the signals enqueued while it runs, plus
\* one.
C9_NeverWaits ==
    /\ (pc = "has_changed" /\ queue = <<>>) => ENABLED HasChangedReturn
    /\ (pc = "has_changed" /\ queue # <<>>) => ENABLED HasChangedRecv
    /\ hist.drainedInCall <= hist.qAtCall + hist.sentInCall
    /\ hist.recvsInCall <= hist.qAtCall + hist.sentInCall + 1
    /\ Returned => /\ hist.recvsInCall = hist.drainedInCall + 1
                   /\ hist.drainedInCall = hist.qAtCall + hist.sentInCall
                   /\ hist.qAtFirstRecv = 0 => (hist.recvsInCall = 1 /\ ~hist.lastResult)

\* C9 witness: a call entered on an empty queue drained a signal that was
\* enqueued while it ran, and returned.
C9_Witness ==
    /\ Returned
    /\ hist.qAtCall = 0
    /\ hist.sentInCall >= 1
    /\ hist.drainedInCall >= 1
    /\ hist.lastResult

\* ======================================================================
\* C10: new discards every signal enqueued before its drain loop finished:
\* on return from new all signals sent so far have been received by its
\* loop, the signals has_changed receives are among those sent after that,
\* and a first has_changed call that returns true has drained a signal sent
\* after new returned.
C10_DrainOnInit ==
    /\ pc \in {"idle", "has_changed", "dropping", "dropped"} =>
          /\ hist.initDrained = hist.sentAtLive
          /\ hist.pollDrained + Len(queue) = hist.sent - hist.sentAtLive
    /\ (Returned /\ hist.polls = 1 /\ hist.lastResult) => hist.sent > hist.sentAtLive

\* C10 witness: a signal enqueued during construction was discarded by new
\* and the first poll returned false.
C10_Witness ==
    /\ Returned
    /\ hist.polls = 1
    /\ hist.initDrained >= 1
    /\ hist.sent = hist.sentAtLive
    /\ ~hist.lastResult

\* ======================================================================
\* C11: a disconnected channel is not an error.  Dropping the watch handle
\* (and with it the sender) leaves the queued signals in place; has_changed
\* then still has a step to take at every point (a recv that takes a queued
\* signal, or the failing recv on which it returns a bool), the first call
\* made after the drop returns true exactly when signals were pending, the
\* queue is empty once such a call has returned, and every later call
\* returns false.
C11_SenderGone == watcher = "dropped" /\ receiver = "alive"

C11_DropKeepsQueue == [][watcher' # watcher => queue' = queue]_vars

C11_DrainAfterDisconnect ==
    C11_SenderGone =>
        /\ (pc = "has_changed" /\ queue # <<>>) => ENABLED HasChangedRecv
        /\ (pc = "has_changed" /\ queue = <<>>) => ENABLED HasChangedReturn
        /\ (Returned /\ hist.pollsGone >= 1) => queue = <<>>
        /\ (Returned /\ hist.pollsGone = 1) => (hist.lastResult <=> hist.qAtCall > 0)
        /\ (Returned /\ hist.pollsGone >= 2) => ~hist.lastResult

C11_DisconnectedNotAnError == []C11_DrainAfterDisconnect /\ C11_DropKeepsQueue

\* C11 witness: a signal pending at the drop of the watch handle was reported
\* by the next call, and the call after it returned false.
C11_Witness ==
    /\ C11_SenderGone
    /\ Returned
    /\ hist.pollsGone >= 2
    /\ hist.qAtPrevCall >= 1
    /\ hist.prevResult
    /\ ~hist.lastResult

\* ======================================================================
\* C12: the debounce gate.  A callback invocation enqueues at most one
\* signal, and enqueues one only for a qualifying event that comes at least
\* one debounce window after last_event and after the signal enqueued before
\* it; so any two signals enqueued in succession were enqueued at least a
\* window apart.
C12_GateStep ==
    [][Len(queue') > Len(queue)
          => /\ queue' = Append(queue, "SomeKindOfChange")
             /\ hist'.cbCount = hist.cbCount + 1
             /\ hist'.lastQual
             /\ now - last_event >= debounce_duration
             /\ hist.lastSentAt # -1 => now - hist.lastSentAt >= debounce_duration]_vars

C12_SignalsSpaced == hist.sendGapOk /\ hist.sent <= hist.cbCount

C12_DebounceGate == []C12_SignalsSpaced /\ C12_GateStep

\* C12 witness: two signals were enqueued exactly one window apart (at 0 and
\* at 100), and a qualifying event after the second was held back.
C12_Witness ==
    /\ hist.sent = 2
    /\ hist.lastSentAt = debounce_duration
    /\ hist.cbCount >= 3
    /\ hist.lastQual
    /\ ~hist.lastGap
    /\ Len(queue) = 2

\* ======================================================================
\* C13: a fixed-rate limiter, not a sliding reset.  A qualifying event that
\* falls inside the debounce window leaves last_event and the queue
\* unchanged; the callback changes last_event only when it accepts an event,
\* and then sets it to the time of that event.
C13_FixedRate ==
    [][hist'.cbCount # hist.cbCount
          => /\ (hist'.lastQual /\ ~hist'.lastGap)
                   => (last_event' = last_event /\ queue' = queue)
             /\ last_event' # last_event => hist'.lastGap
             /\ hist'.lastGap => last_event' = now]_vars

\* C13 witness: a qualifying event half a window after an accepted one was
\* rejected, and last_event is still the time of the accepted one.
C13_Witness ==
    /\ hist.lastQual
    /\ ~hist.lastGap
    /\ hist.sent = 1
    /\ last_event = hist.lastSentAt
    /\ now - last_event = 50

\* ======================================================================
\* C14: no starvation under continuous activity.  While the receiver is
\* held, after every qualifying event the newest enqueued signal is less
\* than one debounce window old, however densely the events arrive; and a
\* qualifying event that comes a window or more after the last enqueued
\* signal is itself enqueued.  So a stream of qualifying events goes on
\* producing signals, one per window, for as long as it lasts.
C14_NoStarvation ==
    [][(hist'.cbCount # hist.cbCount /\ hist'.lastQual /\ receiver = "alive")
          => /\ hist'.lastSentAt # -1
             /\ now - hist'.lastSentAt < debounce_duration
             /\ (hist.lastSentAt = -1 \/ now - hist.lastSentAt >= debounce_duration)
                   => (queue' = Append(queue, "SomeKindOfChange")
                       /\ hist'.lastSentAt = now)]_vars

\* C14 witness: qualifying events half a window apart, the first of them
\* inside the window of an accepted event: the one that came a full window
\* after the accepted event was enqueued, the newer events in between
\* notwithstanding.
C14_Witness ==
    /\ receiver = "alive"
    /\ hist.burstN >= 2
    /\ ~hist.burstFresh
    /\ hist.burstSent = 1
    /\ hist.sent >= 2
    /\ hist.lastGap
    /\ hist.lastSentAt = now

\* ======================================================================
\* C15: a failed send is swallowed.  A callback invocation whose send
\* failed leaves the watcher alive and returns nothing to the consumer (its
\* position, its error and the queue are unchanged); the watcher's thread
\* never dies in the callback; and once a send has failed the callback is
\* still invoked on later raw events and treats them as before: a
\* non-qualifying event changes nothing, an event inside the window changes
\* nothing, an event a window or more after last_event is accepted.
C15_FailedSendStep ==
    [][hist'.cbCount # hist.cbCount
          => /\ hist'.lastSendFailed
                   => /\ watcher' = "alive"
                      /\ queue' = queue
                      /\ pc' = pc /\ err' = err /\ result' = result
             /\ hist.sendFails >= 1
                   => /\ ~hist'.lastQual => (queue' = queue /\ last_event' = last_event)
                      /\ (hist'.lastQual /\ now - last_event < debounce_duration)
                            => (queue' = queue /\ last_event' = last_event)
                      /\ (hist'.lastQual /\ now - last_event >= debounce_duration)
                            => (last_event' = now /\ queue' \in {queue, Send(queue)})]_vars

C15_CallbackStaysRegistered ==
    /\ watcher # "panicked"
    /\ (hist.sendFails >= 1 /\ pc = "dropping" /\ hist.cbCount < MaxEvents)
          => (watcher = "alive" /\ ENABLED Callback)

C15_SendFailureSwallowed == []C15_CallbackStaysRegistered /\ C15_FailedSendStep

\* C15 witness: after the receiver was dropped a send failed, and a later
\* qualifying event, a window on, was accepted in its turn and its send
\* failed too, the watcher still alive.
C15_Witness ==
    /\ pc = "dropping"
    /\ receiver = "dropped"
    /\ watcher = "alive"
    /\ hist.sendFails >= 2
    /\ hist.lastSendFailed
    /\ last_event = now

\* ======================================================================
\* C16: an Err result given to the callback is never surfaced.  The
\* invocation changes nothing but the log: no signal is enqueued, last_event
\* stays, the consumer's position, error and result stay, the watcher stays
\* alive and can be invoked again.  The state has_changed reads being
\* unchanged, no later result differs: a call entered with nothing queued
\* and no other event delivered returns false.
C16_ErrStep ==
    [][(hist'.cbCount # hist.cbCount /\ hist'.lastErr)
          => /\ queue' = queue
             /\ last_event' = last_event
             /\ watcher' = "alive"
             /\ pc' = pc /\ err' = err /\ result' = result
             /\ receiver' = receiver]_vars

C16_ErrLeavesPollsAlone ==
    /\ (hist.lastErr /\ watcher = "alive" /\ hist.cbCount < MaxEvents) => ENABLED Callback
    /\ (hist.lastErr /\ Returned /\ hist.cbAtCall < hist.cbCount /\ hist.sent = 0)
          => queue = <<>>
    /\ (Returned /\ hist.sent = 0) => ~hist.lastResult

C16_ErrNotSurfaced == []C16_ErrLeavesPollsAlone /\ C16_ErrStep

\* C16 witness: the callback was given Err with the debounce window long
\* past; nothing was enqueued, and the has_changed call made afterwards
\* returned false.
C16_Witness ==
    /\ hist.lastErr
    /\ hist.cbCount >= 1
    /\ now - last_event >= debounce_duration
    /\ hist.sent = 0
    /\ Returned
    /\ hist.cbAtCall = hist.cbCount
    /\ ~hist.lastResult
    /\ err = NoError

C18_RecvTakesOne ==
    [][hist'.pollDrained + hist'.initDrained # hist.pollDrained + hist.initDrained
          => /\ hist'.pollDrained + hist'.initDrained
                   = hist.pollDrained + hist.initDrained + 1
             /\ Len(queue') = Len(queue) - 1
             /\ hist'.sent = hist.sent]_vars

C18_Conserved ==
    /\ hist.sent = hist.initDrained + hist.pollDrained + Len(queue)
    /\ hist.pollsTrue <= hist.pollDrained
    /\ hist.pollsTrue <= hist.sent - hist.initDrained
    /\ Returned => hist.drainedInCall = hist.qAtCall + hist.sentInCall

C18_SignalConservation == []C18_Conserved /\ C18_RecvTakesOne

\* C18 witness: of two signals enqueued, one went to new's drain loop, the
\* other was enqueued while a has_changed call ran and was received by that
\* call, which returned true; the call after it returned false.
C18_Witness ==
    /\ Returned
    /\ hist.sent = 2
    /\ hist.initDrained = 1
    /\ hist.pollDrained = 1
    /\ hist.polls = 2
    /\ hist.pollsTrue = 1
    /\ hist.qAtPrevCall = 0
    /\ hist.prevResult
    /\ ~hist.lastResult
    /\ queue = <<>>

\* ======================================================================
\* C19: the first qualifying event of a session is never debounced.  Until
\* a qualifying event has been delivered, last_event is more than a window
\* in the past; the first qualifying event passes the gate, sets last_event
\* to its time and, the receiver being held, enqueues a signal, however soon
\* after start_watch it arrives.
C19_FirstEventStep ==
    [][(hist'.cbCount # hist.cbCount /\ hist.burstN = 0 /\ hist'.lastQual)
          => /\ hist'.lastGap
             /\ last_event' = now
             /\ receiver = "alive" => queue' = Append(queue, "SomeKindOfChange")]_vars

C19_FirstEventReady ==
    /\ (watcher = "alive" /\ hist.burstN = 0) => now - last_event > debounce_duration
    /\ (receiver = "alive" /\ hist.burstN >= 1) => hist.sent >= 1

C19_FirstEventForwarded == []C19_FirstEventReady /\ C19_FirstEventStep

\* C19 witness: a qualifying event delivered at the very instant of
\* start_watch, while new was still in its drain loop, was enqueued.
C19_Witness ==
    /\ now = 0
    /\ hist.burstN = 1
    /\ hist.cbCount = 1
    /\ hist.sent = 1
    /\ last_event = 0
    /\ pc = "new_drain"
    /\ Len(queue) = 1

\* ======================================================================
\* C20: last_event is the time of the last accepted event, not of the last
\* enqueued signal.  A callback invocation whose send failed enqueues
\* nothing and still sets last_event to the event's time; a qualifying event
\* within a window of it is rejected, although no signal is that recent.
C20_AcceptedStep ==
    [][hist'.cbCount # hist.cbCount
          => /\ hist'.lastSendFailed => (last_event' = now /\ queue' = queue)
             /\ (hist'.lastQual /\ now - last_event < debounce_duration)
                   => (queue' = queue /\ ~hist'.lastSendFailed)]_vars

C20_LastEventNotBeforeSignal ==
    /\ hist.lastSentAt # -1 => last_event >= hist.lastSentAt
    /\ hist.lastSendFailed => hist.lastSentAt < last_event

C20_TimestampAdvancesOnFailedSend == []C20_LastEventNotBeforeSignal /\ C20_AcceptedStep

\* C20 witness: a send failed, and the qualifying event that came half a
\* window later was rejected with no signal ever enqueued.
C20_Witness ==
    /\ receiver = "dropped"
    /\ hist.sendFails = 1
    /\ hist.sent = 0
    /\ hist.cbCount = 2
    /\ hist.lastQual
    /\ ~hist.lastGap
    /\ now - last_event = 50

====
